---- MODULE Spec2Model ----
(***************************************************************************)
(* A model of the serverless-bun layer plugin (BunLayerPlugin):            *)
(*   - buildLambdaLayer: cache probe, conditional download, unpack,        *)
(*     augmentation, stamp and persist of the Bun runtime layer archive;   *)
(*   - injectLambdaLayer: registration of the layer in the service         *)
(*     manifest and attachment to the compatible functions.                *)
(* File names are sequences of one-character strings, so that endsWith,    *)
(* split and the archive's root-prefix arithmetic are computed, not        *)
(* assumed. A JSZip object is its ordered `files` map plus its `root`.     *)
(***************************************************************************)
EXTENDS Integers, Sequences, FiniteSets, TLC

(***************************************************************************)
(* JavaScript values                                                       *)
(***************************************************************************)
Undefined == "undefined"
Null == "null"

\* JS truthiness of a string-or-nullish value (if (oldETag), !data).
Truthy(v) == v \notin {Undefined, Null, ""}

\* obj[key] of a JS object modelled as a record; an absent key reads undefined.
Get(obj, key) == IF key \in DOMAIN obj THEN obj[key] ELSE Undefined

\* a ?? b
Coalesce(a, b) == IF a \in {Undefined, Null} THEN b ELSE a

(***************************************************************************)
(* Strings as character sequences                                          *)
(***************************************************************************)
ETAG_FILE == <<".", "e", "t", "a", "g", ".", "t", "x", "t">>
BUN == <<"b", "u", "n">>
BOOTSTRAP == <<"b", "o", "o", "t", "s", "t", "r", "a", "p">>
RUNTIME_TS == <<"r", "u", "n", "t", "i", "m", "e", ".", "t", "s">>
AugmentFiles == <<BOOTSTRAP, RUNTIME_TS>>

EndsWith(s, suffix) ==
  /\ Len(s) >= Len(suffix)
  /\ SubSeq(s, Len(s) - Len(suffix) + 1, Len(s)) = suffix

StartsWith(s, prefix) ==
  /\ Len(s) >= Len(prefix)
  /\ SubSeq(s, 1, Len(prefix)) = prefix

\* s.split('/')[0]: the text before the first '/', the whole of s without one.
SplitFirst(s) ==
  IF \E i \in 1..Len(s) : s[i] = "/"
  THEN LET i == CHOOSE k \in 1..Len(s) :
                  s[k] = "/" /\ \A j \in 1..(k - 1) : s[j] # "/"
       IN  SubSeq(s, 1, i - 1)
  ELSE s

ForceTrailingSlash(name) ==
  IF Len(name) > 0 /\ name[Len(name)] = "/" THEN name ELSE name \o <<"/">>

\* JSZip's parentFolder(path): "" for a top-level name.
ParentFolder(path) ==
  LET p == IF Len(path) > 0 /\ path[Len(path)] = "/"
           THEN SubSeq(path, 1, Len(path) - 1) ELSE path
      slashes == {i \in 1..Len(p) : p[i] = "/"}
  IN  IF \E i \in slashes : i > 1
      THEN LET last == CHOOSE i \in slashes : \A j \in slashes : j <= i
           IN  SubSeq(p, 1, last - 1)
      ELSE <<>>

(***************************************************************************)
(* JSZip objects: [files |-> <<[name, dir, data], ...>>, root |-> name].   *)
(* `files` keeps the insertion order of JSZip's files map. The bytes of a  *)
(* zip are its entry list, [kind |-> "zip", entries |-> <<...>>]; anything *)
(* else on disk or on the wire is [kind |-> "garbage"].                    *)
(***************************************************************************)
Entry(name, dir, data) == [name |-> name, dir |-> dir, data |-> data]

HasEntry(files, name) == \E i \in 1..Len(files) : files[i].name = name

EntryAt(files, name) == files[CHOOSE i \in 1..Len(files) : files[i].name = name]

\* this.files[name] = object: an existing key keeps its place.
PutEntry(files, e) ==
  IF HasEntry(files, e.name)
  THEN [i \in 1..Len(files) |-> IF files[i].name = e.name THEN e ELSE files[i]]
  ELSE Append(files, e)

RECURSIVE FileAdd(_, _, _, _)
RECURSIVE FolderAdd(_, _)

\* JSZip fileAdd with the default createFolders: the parent folders are
\* entered first; a directory, or falsy data, is stored with empty content.
FileAdd(files, name, data, dir) ==
  LET nm == IF dir THEN ForceTrailingSlash(name) ELSE name
      parent == ParentFolder(nm)
      base == IF parent # <<>> THEN FolderAdd(files, parent) ELSE files
      content == IF dir \/ ~Truthy(data) THEN "" ELSE data
  IN  PutEntry(base, Entry(nm, dir, content))

\* JSZip folderAdd: enters the directory unless it is there already.
FolderAdd(files, name) ==
  LET nm == ForceTrailingSlash(name)
  IN  IF HasEntry(files, nm) THEN files ELSE FileAdd(files, nm, Null, TRUE)

\* zip.folder(arg): the same files map, re-rooted at the (created) folder.
ZipFolder(zip, arg) ==
  LET name == zip.root \o arg
  IN  [files |-> FolderAdd(zip.files, name), root |-> ForceTrailingSlash(name)]

\* zip.file(name): the entry under the root, null for none or a directory.
ZipFileGet(zip, name) ==
  LET full == zip.root \o name
  IN  IF HasEntry(zip.files, full) /\ ~EntryAt(zip.files, full).dir
      THEN EntryAt(zip.files, full).data
      ELSE Null

\* zip.file(name, data)
ZipFileSet(zip, name, data) ==
  [zip EXCEPT !.files = FileAdd(zip.files, zip.root \o name, data, FALSE)]

\* zip.forEach: the entries below the root, each with its relative path.
ZipForEach(zip) ==
  LET inRoot(e) == /\ StartsWith(e.name, zip.root)
                   /\ Len(e.name) > Len(zip.root)
      rel(e) == SubSeq(e.name, Len(zip.root) + 1, Len(e.name))
  IN  [i \in 1..Len(SelectSeq(zip.files, inRoot)) |->
         [relativePath |-> rel(SelectSeq(zip.files, inRoot)[i]),
          file |-> SelectSeq(zip.files, inRoot)[i]]]

\* zip.generateAsync: every entry of forEach, named by its relative path.
GenerateAsync(zip) ==
  [kind |-> "zip",
   entries |-> [i \in 1..Len(ZipForEach(zip)) |->
                  Entry(ZipForEach(zip)[i].relativePath,
                        ZipForEach(zip)[i].file.dir,
                        ZipForEach(zip)[i].file.data)]]

\* JSZip.loadAsync: [threw, zip | err]; the error of a non-zip has no `code`.
LoadAsync(bytes) ==
  IF bytes.kind = "zip"
  THEN [threw |-> FALSE, zip |-> [files |-> bytes.entries, root |-> <<>>]]
  ELSE [threw |-> TRUE,
        err |-> [message |-> "Can't find end of central directory"]]

(***************************************************************************)
(* The file system and the cache probe                                     *)
(***************************************************************************)
Absent == [kind |-> "absent"]
Garbage == [kind |-> "garbage"]
Zip(entries) == [kind |-> "zip", entries |-> entries]

\* readFileSync(output): [threw, content | err]. `fault` is the file system's
\* answer for an existing file: "none", or "EACCES" (permission denied).
ReadFileSync(file, fault) ==
  IF file.kind = "absent"
  THEN [threw |-> TRUE,
        err |-> [message |-> "ENOENT: no such file or directory", code |-> "ENOENT"]]
  ELSE IF fault = "EACCES"
  THEN [threw |-> TRUE,
        err |-> [message |-> "EACCES: permission denied", code |-> "EACCES"]]
  ELSE [threw |-> FALSE, content |-> file]

\* The catch clause of extractETag: rethrow exactly when the error has a
\* `code` property that is not 'ENOENT'.
Rethrows(err) == "code" \in DOMAIN err /\ err.code # "ENOENT"

\* archive.file(ETAG_FILE)?.async('string')
ReadSentinel(zip) ==
  IF ZipFileGet(zip, ETAG_FILE) = Null THEN Undefined ELSE ZipFileGet(zip, ETAG_FILE)

\* extractETag(output): [threw, value | err]
extractETag(file, fault) ==
  LET rd == ReadFileSync(file, fault)
      ld == LoadAsync(rd.content)
      caught == IF rd.threw THEN rd.err ELSE ld.err
  IN  IF ~rd.threw /\ ~ld.threw
      THEN [threw |-> FALSE, value |-> ReadSentinel(ld.zip)]
      ELSE IF Rethrows(caught)
      THEN [threw |-> TRUE, err |-> caught]
      ELSE [threw |-> FALSE, value |-> Undefined]

(***************************************************************************)
(* The network                                                             *)
(***************************************************************************)
Tags == {"etag-1", "etag-2"}

ExeBytes == "ELF"

\* The layouts an upstream download can have.
BodyNested ==
  Zip(<<Entry(<<"x", "/">>, TRUE, ""),
        Entry(<<"x", "/", "b", "u", "n">>, FALSE, ExeBytes)>>)
BodyRoot == Zip(<<Entry(BUN, FALSE, ExeBytes)>>)
BodyDeep ==
  Zip(<<Entry(<<"x", "/", "y", "/", "b", "u", "n">>, FALSE, ExeBytes),
        Entry(<<"x", "/">> \o ETAG_FILE, FALSE, "stale")>>)
BodyNoExe ==
  Zip(<<Entry(<<"b", "u", "n", "/">>, TRUE, ""),
        Entry(<<"b", "u", "n", "/", "b", "u", "n", "x">>, FALSE, ExeBytes)>>)
Bodies == {BodyNested, BodyRoot, BodyDeep, BodyNoExe, Garbage}

Text(t) == [kind |-> "text", text |-> t]

\* response.text()
ResponseText(resp) == IF resp.body.kind = "text" THEN resp.body.text ELSE "<binary>"

\* A faulty variant: the status is never looked at.
OkAnyStatus(resp) == TRUE

\* response.ok
Ok(resp) == resp.status >= 200 /\ resp.status <= 299

\* A faulty variant: 304 is handled like any other status.
NotModifiedNever(resp) == FALSE

\* response.status === 304
NotModified(resp) == resp.status = 304

\* href of buildLambdaLayer: the custom url, else the canonical endpoint.
ResolveHref(release, arch, url) ==
  IF url # Undefined
  THEN <<url>>
  ELSE <<"https://bun.sh/download/", release, "/linux/", arch, "?avx2=true">>

\* A faulty variant: the GET is never conditional.
PrimaryHeadersUnconditional(etag) == ("User-Agent" :> "serverless-bun-layer")

\* A faulty variant: the tag is sent as a weak validator.
PrimaryHeadersWeakened(etag) ==
  IF Truthy(etag)
  THEN ("User-Agent" :> "serverless-bun-layer") @@ ("If-None-Match" :> "W/" \o etag)
  ELSE ("User-Agent" :> "serverless-bun-layer")

\* The headers of the primary GET: If-None-Match only for a truthy oldETag.
PrimaryHeaders(etag) ==
  IF Truthy(etag)
  THEN ("User-Agent" :> "serverless-bun-layer") @@ ("If-None-Match" :> etag)
  ELSE ("User-Agent" :> "serverless-bun-layer")

AugmentUrl(filename) ==
  <<"https://raw.githubusercontent.com/oven-sh/bun/main/packages/bun-lambda/", filename>>

\* What a server that validates entity tags answers for upstream state `up`.
Honest(up, headers) ==
  IF "If-None-Match" \in DOMAIN headers /\ headers["If-None-Match"] = up.etag
  THEN [status |-> 304, etag |-> up.etag, body |-> Text("")]
  ELSE [status |-> 200, etag |-> up.etag, body |-> up.body]

\* Every answer the primary GET can get: the honest one, a 304 or a 200
\* whatever the request said, a 200 without an ETag header, an error status.
PrimaryResponses(up, headers) ==
  { Honest(up, headers),
    [status |-> 304, etag |-> up.etag, body |-> Text("")],
    [status |-> 200, etag |-> up.etag, body |-> up.body],
    [status |-> 200, etag |-> Null, body |-> up.body],
    [status |-> 404, etag |-> Null, body |-> Text("Not Found")] }

AugmentContent(filename) ==
  IF filename = BOOTSTRAP THEN "#!/bin/sh bootstrap" ELSE "// runtime.ts shim"

AugmentResponses(filename) ==
  { [status |-> 200, body |-> Text(AugmentContent(filename))],
    [status |-> 404, body |-> Text("404: Not Found")] }

(***************************************************************************)
(* buildLambdaLayer as a process: one action per await                     *)
(***************************************************************************)
MaxBuilds == 2

OUTPUT == "./bun-lambda-layer.zip"

\* The argument tuples a build is called with.
BuildArgs ==
  { [release |-> "latest", arch |-> "aarch64", url |-> Undefined],
    [release |-> "latest", arch |-> "x64", url |-> "https://mirror.example/bun.zip"] }

VARIABLES
  outFile,    \* the bytes at the output path
  upstream,   \* what the download endpoint serves: [etag, body]
  pc,         \* "idle", "fetch", "unpack", "augment", "persist", "done", "failed"
  args,       \* the arguments the builder is called with: [release, arch, url]
  oldETag,    \* local oldETag
  response,   \* local response of the primary GET
  newETag,    \* local newETag
  archive,    \* local archive (a JSZip object)
  augIdx,     \* index into AugmentFiles of the next supplementary file
  error,      \* message of the Error the call threw, <<>> for none
  requests,   \* the requests the call has sent, in order
  steps,      \* the steps the call has run, in order
  before,     \* the bytes at the output path when the call started
  servedBy,   \* the upstream state the primary GET was answered from
  prev,       \* summary of the previous finished call
  probeFault, \* what the file system answered the cache probe of the call
  builds      \* number of calls started

buildVars ==
  <<outFile, upstream, pc, args, oldETag, response, newETag, archive, augIdx,
    error, requests, steps, before, servedBy, prev, probeFault, builds>>

VARIABLES
  service,       \* the service's `custom` property: EmptyObject while
                 \* service.custom is undefined, [custom |-> object] otherwise
  layers,        \* service.layers, EmptyObject when the service declares none
  provider,      \* service.provider
  functions,     \* service.functions: name -> function object
  layersBefore,  \* service.layers before the last injection
  functionsBefore, \* service.functions before the last injection
  injects        \* number of injections run

injectVars ==
  <<service, layers, provider, functions, layersBefore, functionsBefore, injects>>

VARIABLES
  phase,    \* where the command is: "start", "initialized", "artifacts",
            \* "compileLayers", "run", "end", "aborted"
  entry,    \* the command the host runs: "package" or "build-layer"
  options,  \* this.options: the command line options
  declared  \* `service` as the configuration file declared it

cycleVars == <<phase, entry, options, declared>>

vars == <<buildVars, injectVars, cycleVars>>

\* get bunLayerConfig()
bunLayerConfig == service.custom.bunLayer

NoResponse == [status |-> 0, etag |-> Null, body |-> Text("")]
NoArchive == [files |-> <<>>, root |-> <<>>]
NoCall == [result |-> "none"]

\* What a finished call leaves for the next one to be compared with.
Summary ==
  [result |-> pc, args |-> args, oldETag |-> oldETag, response |-> response,
   requests |-> requests, steps |-> steps, before |-> before, after |-> outFile,
   servedBy |-> servedBy, error |-> error]

\* A faulty variant: includes in place of endsWith.
FindExecutableByInclusion(zip) ==
  SelectSeq(ZipForEach(zip),
            LAMBDA x : /\ ~x.file.dir
                       /\ \E i \in 1..(Len(x.file.name) - Len(BUN) + 1) :
                            SubSeq(x.file.name, i, i + Len(BUN) - 1) = BUN)

\* archive.filter((_, {dir, name}) => !dir && name.endsWith('bun'))
FindExecutable(zip) ==
  SelectSeq(ZipForEach(zip),
            LAMBDA x : ~x.file.dir /\ EndsWith(x.file.name, BUN))

\* archive.folder(bun.name.split('/')[0]) ?? archive
WorkingFolder(zip, bun) == ZipFolder(zip, SplitFirst(bun.name))

\* A faulty variant: the sentinel goes to the root of the download, not to
\* the working folder.
StampAtArchiveRoot(zip, etag) ==
  [zip EXCEPT !.files = FileAdd(zip.files, ETAG_FILE, etag, FALSE)]

\* archive.file(ETAG_FILE, newETag)
Stamp(zip, etag) == ZipFileSet(zip, ETAG_FILE, etag)

\* A default parameter value: it stands in for undefined only.
DefaultTo(v, d) == IF v = Undefined THEN d ELSE v

\* The call of buildLambdaLayer(release = 'latest', arch = 'aarch64', url,
\* output) up to its first await: the default parameters and
\* await this.extractETag(output), wrapped.
buildLambdaLayer(release, arch, url) ==
  /\ args' = [release |-> DefaultTo(release, "latest"),
              arch |-> DefaultTo(arch, "aarch64"), url |-> url]
  /\ \E fault \in {"none", "EACCES"} :
       LET probe == extractETag(outFile, fault)
       IN  /\ probeFault' = fault
           /\ IF probe.threw
              THEN /\ pc' = "failed"
                   /\ error' = <<"Failed to read ETag from ", OUTPUT, ": ",
                                 probe.err.message>>
                   /\ oldETag' = Undefined
              ELSE /\ pc' = "fetch"
                   /\ error' = <<>>
                   /\ oldETag' = probe.value
  /\ prev' = IF pc = "idle" THEN NoCall ELSE Summary
  /\ before' = outFile
  /\ steps' = <<"probe">>
  /\ requests' = <<>>
  /\ response' = NoResponse
  /\ newETag' = Undefined
  /\ archive' = NoArchive
  /\ augIdx' = 1
  /\ servedBy' = upstream
  /\ builds' = builds + 1
  /\ UNCHANGED <<outFile, upstream>>

\* A call of the builder with the arguments of the run.
BuildStart ==
  /\ pc \in {"idle", "done", "failed"}
  /\ builds < MaxBuilds
  /\ buildLambdaLayer(args.release, args.arch, args.url)
  /\ UNCHANGED <<injectVars, cycleVars>>

\* await fetch(href, {headers}) and the handling of its status.
PrimaryFetch ==
  /\ pc = "fetch"
  /\ LET req == [url |-> ResolveHref(args.release, args.arch, args.url),
                 headers |-> PrimaryHeaders(oldETag)]
     IN  /\ requests' = Append(requests, req)
         /\ \E resp \in PrimaryResponses(upstream, req.headers) :
              /\ response' = resp
              /\ IF NotModified(resp)
                 THEN /\ pc' = "done"
                      /\ UNCHANGED <<error, newETag>>
                 ELSE IF ~Ok(resp)
                 THEN /\ pc' = "failed"
                      /\ error' = <<ResponseText(resp)>>
                      /\ UNCHANGED newETag
                 ELSE /\ pc' = "unpack"
                      /\ newETag' = resp.etag
                      /\ UNCHANGED error
  /\ steps' = Append(steps, "fetch")
  /\ servedBy' = upstream
  /\ UNCHANGED <<outFile, upstream, args, oldETag, archive, augIdx, before,
                 prev, probeFault, builds>>
  /\ UNCHANGED <<injectVars, cycleVars>>

\* await response.arrayBuffer(), JSZip.loadAsync(buffer), the search for the
\* executable and the change of root.
Unpack ==
  /\ pc = "unpack"
  /\ LET ld == LoadAsync(response.body)
     IN  IF ld.threw
         THEN /\ pc' = "failed"
              /\ error' = <<"Failed to unzip file: ", ld.err.message>>
              /\ UNCHANGED archive
         ELSE IF FindExecutable(ld.zip) = <<>>
         THEN /\ pc' = "failed"
              /\ error' = <<"Failed to find executable in zip">>
              /\ archive' = ld.zip
         ELSE /\ pc' = "augment"
              /\ archive' = WorkingFolder(ld.zip, FindExecutable(ld.zip)[1].file)
              /\ UNCHANGED error
  /\ steps' = Append(steps, "unpack")
  /\ UNCHANGED <<outFile, upstream, args, oldETag, response, newETag, augIdx,
                 requests, before, servedBy, prev, probeFault, builds>>
  /\ UNCHANGED <<injectVars, cycleVars>>

\* A faulty variant: a supplementary file that cannot be fetched is left out.
AugmentLenient ==
  /\ pc = "augment"
  /\ LET filename == AugmentFiles[augIdx]
     IN  /\ requests' = Append(requests, [url |-> AugmentUrl(filename),
                                          headers |-> <<>>])
         /\ \E resp \in AugmentResponses(filename) :
              /\ archive' = IF Ok(resp)
                            THEN ZipFileSet(archive, filename, ResponseText(resp))
                            ELSE archive
              /\ augIdx' = augIdx + 1
              /\ pc' = IF augIdx = Len(AugmentFiles) THEN "persist" ELSE "augment"
              /\ UNCHANGED error
  /\ steps' = Append(steps, "augment")
  /\ UNCHANGED <<outFile, upstream, args, oldETag, response, newETag, before,
                 servedBy, prev, probeFault, builds>>
  /\ UNCHANGED <<injectVars, cycleVars>>

\* One turn of the loop over ['bootstrap', 'runtime.ts'].
Augment ==
  /\ pc = "augment"
  /\ LET filename == AugmentFiles[augIdx]
     IN  /\ requests' = Append(requests, [url |-> AugmentUrl(filename),
                                          headers |-> <<>>])
         /\ \E resp \in AugmentResponses(filename) :
              IF ~Ok(resp)
              THEN /\ pc' = "failed"
                   /\ error' = <<"Failed to fetch ", filename, " from GitHub: ",
                                 ResponseText(resp)>>
                   /\ UNCHANGED <<archive, augIdx>>
              ELSE /\ archive' = ZipFileSet(archive, filename, ResponseText(resp))
                   /\ augIdx' = augIdx + 1
                   /\ pc' = IF augIdx = Len(AugmentFiles) THEN "persist" ELSE "augment"
                   /\ UNCHANGED error
  /\ steps' = Append(steps, "augment")
  /\ UNCHANGED <<outFile, upstream, args, oldETag, response, newETag, before,
                 servedBy, prev, probeFault, builds>>
  /\ UNCHANGED <<injectVars, cycleVars>>

\* archive.file(ETAG_FILE, newETag), archive.generateAsync, writeFileSync.
\* `disk` is the file system's answer to the write.
Persist ==
  /\ pc = "persist"
  /\ archive' = Stamp(archive, newETag)
  /\ \E disk \in {"ok", "EACCES"} :
       IF disk = "ok"
       THEN /\ outFile' = GenerateAsync(archive')
            /\ pc' = "done"
            /\ UNCHANGED error
       ELSE /\ pc' = "failed"
            /\ error' = <<"Failed to generate Bun lambda layer: ",
                          "EACCES: permission denied">>
            /\ UNCHANGED outFile
  /\ steps' = steps \o (IF pc' = "done" THEN <<"stamp", "persist", "write">>
                                         ELSE <<"stamp", "persist">>)
  /\ UNCHANGED <<upstream, args, oldETag, response, newETag, augIdx, requests,
                 before, servedBy, prev, probeFault, builds>>
  /\ UNCHANGED <<injectVars, cycleVars>>

\* Upstream publishes other content: a new entity tag, any layout. Only the
\* primary GET reads `upstream`, so a change between two calls stands for a
\* change at any moment before the next call's GET.
Publish ==
  /\ pc \in {"done", "failed"}
  /\ builds < MaxBuilds
  /\ \E t \in Tags \ {upstream.etag}, b \in Bodies :
       upstream' = [etag |-> t, body |-> b]
  /\ UNCHANGED <<outFile, pc, args, oldETag, response, newETag, archive, augIdx,
                 error, requests, steps, before, servedBy, prev, probeFault,
                 builds>>
  /\ UNCHANGED <<injectVars, cycleVars>>

(***************************************************************************)
(* injectLambdaLayer                                                       *)
(***************************************************************************)
MaxInjects == 2

SERVICE_NAME == "svc"

EmptyObject == [k \in {} |-> Undefined]

Includes(seq, v) == \E i \in 1..Len(seq) : seq[i] = v

compatibleRuntimes == <<"provided.al2", "provided">>

compatibleArchitectures(arch) == <<IF arch = "x64" THEN "x86_64" ELSE "arm64">>

\* just-pascal-case: split at separators, upper-case each word's first letter.
WordSeparators == {" ", "-", "_", ".", "/"}

ToUpperCase(c) ==
  CASE c = "b" -> "B" [] c = "m" -> "M" [] c = "u" -> "U" [] c = "n" -> "N"
    [] c = "y" -> "Y" [] OTHER -> c

RECURSIVE PascalFrom(_, _, _)
\* The letters of str from position i on; `first` says a word starts here.
PascalFrom(str, i, first) ==
  IF i > Len(str) THEN <<>>
  ELSE IF str[i] \in WordSeparators THEN PascalFrom(str, i + 1, TRUE)
  ELSE <<IF first THEN ToUpperCase(str[i]) ELSE str[i]>>
         \o PascalFrom(str, i + 1, FALSE)

pascalCase(str) == PascalFrom(str, 1, TRUE)

\* The reference appended to a function: {Ref: `${pascalCase(layerKey)}LambdaLayer`}
LayerRef(layerKey) ==
  [Ref |-> pascalCase(layerKey) \o <<"L", "a", "m", "b", "d", "a", "L", "a", "y", "e", "r">>]

\* A faulty variant: a private layer gets an empty grant list.
LayerDefinitionEmptyGrant(arch, output, layerKey, isPublic) ==
  [package |-> [artifact |-> output],
   name |-> <<SERVICE_NAME, "-", layerKey>>,
   description |->
     "Bun is an incredibly fast JavaScript runtime, bundler, transpiler, and package manager.",
   compatibleRuntimes |-> compatibleRuntimes,
   compatibleArchitectures |-> compatibleArchitectures(arch),
   licenseInfo |-> "MIT",
   allowedAccounts |-> IF isPublic THEN <<"*">> ELSE <<>>]

\* The layer definition registered under layerKey.
LayerDefinition(arch, output, layerKey, isPublic) ==
  [package |-> [artifact |-> output],
   name |-> <<SERVICE_NAME, "-", layerKey>>,
   description |->
     "Bun is an incredibly fast JavaScript runtime, bundler, transpiler, and package manager.",
   compatibleRuntimes |-> compatibleRuntimes,
   compatibleArchitectures |-> compatibleArchitectures(arch),
   licenseInfo |-> "MIT",
   allowedAccounts |-> IF isPublic THEN <<"*">> ELSE Undefined]

\* A faulty variant: the opt-out flag is not read.
OptedOutIgnored(func) == FALSE

\* if (func.omitBunLayer): an absent flag is falsy.
OptedOut(func) == "omitBunLayer" \in DOMAIN func /\ func.omitBunLayer

\* A faulty variant: the provider's runtime comes first.
EffectiveRuntimeProviderFirst(func, prov) ==
  Coalesce(Get(prov, "runtime"), Get(func, "runtime"))

\* func.runtime ?? provider.runtime
EffectiveRuntime(func, prov) == Coalesce(Get(func, "runtime"), Get(prov, "runtime"))

\* func.architecture ?? provider.architecture
EffectiveArchitecture(func, prov) ==
  Coalesce(Get(func, "architecture"), Get(prov, "architecture"))

\* A faulty variant: one matching dimension is enough.
IsTargetDisjunctive(func, prov, arch) ==
  IF OptedOut(func) THEN FALSE
  ELSE IF ~Truthy(EffectiveRuntime(func, prov))
          \/ ~Truthy(EffectiveArchitecture(func, prov)) THEN FALSE
  ELSE \/ Includes(compatibleRuntimes, EffectiveRuntime(func, prov))
       \/ Includes(compatibleArchitectures(arch), EffectiveArchitecture(func, prov))

\* The predicate of injectLambdaLayer's filter.
IsTarget(func, prov, arch) ==
  IF OptedOut(func) THEN FALSE
  ELSE IF ~Truthy(EffectiveRuntime(func, prov))
          \/ ~Truthy(EffectiveArchitecture(func, prov)) THEN FALSE
  ELSE /\ Includes(compatibleRuntimes, EffectiveRuntime(func, prov))
       /\ Includes(compatibleArchitectures(arch), EffectiveArchitecture(func, prov))

\* A faulty variant: a reference the function already holds is not appended
\* again.
AttachLayerOnce(func, layerKey) ==
  IF "layers" \in DOMAIN func
  THEN IF \E i \in 1..Len(func.layers) : func.layers[i] = LayerRef(layerKey)
       THEN func
       ELSE [func EXCEPT !.layers = Append(@, LayerRef(layerKey))]
  ELSE func @@ [layers |-> <<LayerRef(layerKey)>>]

\* func.layers = [...(func.layers ?? []), {Ref: ...}]
AttachLayer(func, layerKey) ==
  IF "layers" \in DOMAIN func
  THEN [func EXCEPT !.layers = Append(@, LayerRef(layerKey))]
  ELSE func @@ [layers |-> <<LayerRef(layerKey)>>]

\* A faulty variant: the map is replaced, not extended.
RegisterLayerAlone(layerMap, layerKey, def) == (layerKey :> def)

\* service.layers = {...service.layers, [layerKey]: definition}
RegisterLayer(layerMap, layerKey, def) ==
  [k \in DOMAIN layerMap \cup {layerKey} |->
     IF k = layerKey THEN def ELSE layerMap[k]]

\* injectLambdaLayer(arch, output, layerKey, isPublic)
injectLambdaLayer(arch, output, layerKey, isPublic) ==
  /\ layers' = RegisterLayer(layers, layerKey,
                             LayerDefinition(arch, output, layerKey, isPublic))
  /\ functions' = [name \in DOMAIN functions |->
                     IF IsTarget(functions[name], provider, arch)
                     THEN AttachLayer(functions[name], layerKey)
                     ELSE functions[name]]
  /\ layersBefore' = layers
  /\ functionsBefore' = functions
  /\ injects' = injects + 1
  /\ UNCHANGED <<service, provider>>

\* One call of injectLambdaLayer with the configured arguments.
Inject ==
  /\ injects < MaxInjects
  /\ injectLambdaLayer(bunLayerConfig.arch, bunLayerConfig.output,
                       bunLayerConfig.layerKey, bunLayerConfig.public)
  /\ UNCHANGED <<buildVars, cycleVars>>

(***************************************************************************)
(* initBunLayerConfig: the custom properties schema compiled by Ajv with   *)
(* useDefaults and removeAdditional                                        *)
(***************************************************************************)
\* The keys of customPropertiesSchema.properties.bunLayer.properties.
BunLayerProperties ==
  {"arch", "release", "url", "output", "public", "layerKey", "omitInjection"}

\* The `default` of each property of bunLayer that has one.
PropertyDefaults ==
  [arch |-> "aarch64", release |-> "latest", output |-> "./bun-lambda-layer.zip",
   public |-> FALSE, layerKey |-> <<"b", "u", "n">>, omitInjection |-> FALSE]

\* The `default` of bunLayer itself, as Ajv serialises it: `url: undefined`
\* is dropped, and the layer key stands under `layer`.
BunLayerDefault ==
  [arch |-> "aarch64", release |-> "latest", output |-> "./bun-lambda-layer.zip",
   layer |-> <<"b", "u", "n">>, public |-> FALSE, omitInjection |-> FALSE]

\* useDefaults: a property that is missing gets its default.
UseDefaults(data, defaults) ==
  [k \in DOMAIN data \cup DOMAIN defaults |->
     IF k \in DOMAIN data THEN data[k] ELSE defaults[k]]

\* A faulty variant: properties the schema does not name are kept.
RemoveAdditionalOff(data, properties) == data

\* removeAdditional under additionalProperties: false.
RemoveAdditional(data, properties) ==
  [k \in DOMAIN data \cap properties |-> data[k]]

\* The compiled validator on custom.bunLayer.
ValidateBunLayer(data) ==
  RemoveAdditional(UseDefaults(data, PropertyDefaults), BunLayerProperties)

\* The compiled validator on service.custom: no additionalProperties
\* keyword at this level, so other custom properties stay.
ValidateCustom(data) ==
  LET filled == UseDefaults(data, [bunLayer |-> BunLayerDefault])
  IN  [filled EXCEPT !.bunLayer = ValidateBunLayer(@)]

\* this.serverless.service.custom ??= {}; then the validator on it.
initBunLayerConfig ==
  service' = [custom |-> ValidateCustom(IF "custom" \in DOMAIN service
                                         THEN service.custom
                                         ELSE EmptyObject)]

(***************************************************************************)
(* The hooks, run by the host in the order of its lifecycle events         *)
(***************************************************************************)
\* A faulty variant: the hook does not await the builder.
BuildSettledAtOnce == TRUE

\* await this.buildLambdaLayer(...): the hook's promise settles when the
\* builder's does.
BuildSettled == pc \in {"done", "failed"}

\* The builder threw: nothing in the hook catches, its promise rejects.
BuildRejected == pc = "failed"

\* hooks.initialize
Initialize ==
  /\ phase = "start"
  /\ initBunLayerConfig
  /\ phase' = "initialized"
  /\ UNCHANGED <<entry, options, declared, buildVars, layers, provider, functions,
                 layersBefore, functionsBefore, injects>>

\* hooks['before:package:createDeploymentArtifacts'], up to the first await
\* of the builder.
CreateDeploymentArtifactsHook ==
  /\ entry = "package"
  /\ phase = "initialized"
  /\ buildLambdaLayer(bunLayerConfig.release, bunLayerConfig.arch,
                      Get(bunLayerConfig, "url"))
  /\ phase' = "artifacts"
  /\ UNCHANGED <<entry, options, declared, injectVars>>

\* The host, awaiting the hook of package:createDeploymentArtifacts: a
\* rejection ends the command, otherwise package:compileLayers is next.
ArtifactsHookSettled ==
  /\ phase = "artifacts"
  /\ BuildSettled
  /\ phase' = IF BuildRejected THEN "aborted" ELSE "compileLayers"
  /\ UNCHANGED <<entry, options, declared, buildVars, injectVars>>

\* A faulty variant: omitInjection is not read.
CompileLayersHookAlways ==
  /\ phase = "compileLayers"
  /\ injectLambdaLayer(bunLayerConfig.arch, bunLayerConfig.output,
                       bunLayerConfig.layerKey, bunLayerConfig.public)
  /\ phase' = "end"
  /\ UNCHANGED <<entry, options, declared, buildVars>>

\* hooks['before:package:compileLayers']
CompileLayersHook ==
  /\ phase = "compileLayers"
  /\ IF bunLayerConfig.omitInjection
     THEN UNCHANGED injectVars
     ELSE injectLambdaLayer(bunLayerConfig.arch, bunLayerConfig.output,
                            bunLayerConfig.layerKey, bunLayerConfig.public)
  /\ phase' = "end"
  /\ UNCHANGED <<entry, options, declared, buildVars>>

\* hooks['bun:build-layer:run'], up to the first await of the builder.
BuildLayerRunHook ==
  /\ entry = "build-layer"
  /\ phase = "initialized"
  /\ buildLambdaLayer(Get(options, "release"), Get(options, "arch"),
                      Get(options, "url"))
  /\ phase' = "run"
  /\ UNCHANGED <<entry, options, declared, injectVars>>

\* The host, awaiting the hook of bun:build-layer:run, the one lifecycle
\* event of the command.
RunHookSettled ==
  /\ phase = "run"
  /\ BuildSettled
  /\ phase' = IF BuildRejected THEN "aborted" ELSE "end"
  /\ UNCHANGED <<entry, options, declared, buildVars, injectVars>>

(***************************************************************************)
(* Initial states and specifications                                       *)
(***************************************************************************)
\* The archive a complete build persists for download `body` and tag `etag`.
BuiltArchive(body, etag) ==
  LET zip == LoadAsync(body).zip
      cwd == WorkingFolder(zip, FindExecutable(zip)[1].file)
      a1 == ZipFileSet(cwd, BOOTSTRAP, AugmentContent(BOOTSTRAP))
      a2 == ZipFileSet(a1, RUNTIME_TS, AugmentContent(RUNTIME_TS))
  IN  GenerateAsync(Stamp(a2, etag))

\* What can lie at the output path before the first build of a run: nothing,
\* a file that is no zip, a zip that is no layer, the layer of an earlier run.
InitialFiles ==
  {Absent, Garbage, BodyRoot} \cup {BuiltArchive(BodyNested, t) : t \in Tags}

DefaultConfig ==
  [arch |-> "aarch64", release |-> "latest", output |-> OUTPUT, public |-> FALSE,
   layerKey |-> BUN, omitInjection |-> FALSE]

InitBuildIdle ==
  /\ pc = "idle"
  /\ oldETag = Undefined
  /\ response = NoResponse
  /\ newETag = Undefined
  /\ archive = NoArchive
  /\ augIdx = 1
  /\ error = <<>>
  /\ requests = <<>>
  /\ steps = <<>>
  /\ prev = NoCall
  /\ probeFault = "none"
  /\ builds = 0

InitManifestIdle ==
  /\ layersBefore = layers
  /\ functionsBefore = functions
  /\ injects = 0

\* The plugin is loaded and initialised, no command hook is running.
InitCycleIdle ==
  /\ phase = "initialized"
  /\ entry = "none"
  /\ options = EmptyObject
  /\ declared = service

InitBuild ==
  /\ outFile \in InitialFiles
  /\ before = outFile
  /\ upstream \in [etag : Tags, body : Bodies]
  /\ servedBy = upstream
  /\ InitBuildIdle
  /\ args \in BuildArgs
  /\ service = [custom |-> [bunLayer |-> DefaultConfig]]
  /\ InitCycleIdle
  /\ layers = EmptyObject
  /\ provider = [name |-> "aws", runtime |-> "provided.al2", architecture |-> "arm64"]
  /\ functions = [name \in {"api"} |-> [handler |-> "src/api.handler"]]
  /\ InitManifestIdle

NextBuild ==
  \/ BuildStart
  \/ PrimaryFetch
  \/ Unpack
  \/ Augment
  \/ Persist
  \/ Publish

SpecBuild == InitBuild /\ [][NextBuild]_vars

\* The manifests an injection can meet.
Runtimes == {"provided.al2", "provided", "nodejs20.x"}
Architectures == {"arm64", "x86_64"}
LayerKeys == {BUN, <<"m", "y", "-", "b", "u", "n">>}
OtherLayer == [Ref |-> <<"O", "t", "h", "e", "r", "L", "a", "m", "b", "d", "a", "L", "a", "y", "e", "r">>]

Optional(key, values) == {EmptyObject} \cup {(key :> v) : v \in values}

Providers ==
  {[name |-> "aws"] @@ r @@ a :
     r \in Optional("runtime", Runtimes), a \in Optional("architecture", Architectures)}

FunctionObjects ==
  {[handler |-> "src/index.handler"] @@ r @@ a @@ o @@ l :
     r \in Optional("runtime", Runtimes),
     a \in Optional("architecture", Architectures),
     o \in Optional("omitBunLayer", BOOLEAN),
     l \in Optional("layers", {<<OtherLayer>>})}

\* The second function of a manifest: fewer shapes, to keep the state space small.
SiblingObjects ==
  {f \in FunctionObjects :
     /\ "omitBunLayer" \notin DOMAIN f
     /\ "layers" \notin DOMAIN f
     /\ ("runtime" \in DOMAIN f => f.runtime = "provided.al2")
     /\ ("architecture" \in DOMAIN f <=> "runtime" \in DOMAIN f)}

Configs ==
  {[DefaultConfig EXCEPT !.arch = a, !.public = p, !.layerKey = k] :
     a \in {"aarch64", "x64"}, p \in BOOLEAN, k \in LayerKeys}

InitialLayers ==
  {EmptyObject,
   (BUN :> [package |-> [artifact |-> "./old.zip"]]),
   (<<"l", "i", "b">> :> [path |-> "lib"])}

InitInject ==
  /\ outFile = BuiltArchive(BodyNested, "etag-1")
  /\ before = outFile
  /\ upstream = [etag |-> "etag-1", body |-> BodyNested]
  /\ servedBy = upstream
  /\ InitBuildIdle
  /\ args = [release |-> "latest", arch |-> "aarch64", url |-> Undefined]
  /\ service \in {[custom |-> [bunLayer |-> c]] : c \in Configs}
  /\ InitCycleIdle
  /\ layers \in InitialLayers
  /\ provider \in Providers
  /\ \E f1 \in FunctionObjects, f2 \in SiblingObjects :
       functions = [name \in {"f1", "f2"} |-> IF name = "f1" THEN f1 ELSE f2]
  /\ InitManifestIdle

SpecInject == InitInject /\ [][Inject]_vars

\* The raw custom.bunLayer objects: every subset of the properties, and a
\* property the schema does not name.
RawBunLayers ==
  {a @@ r @@ u @@ o @@ p @@ k @@ i @@ x :
     a \in Optional("arch", {"x64"}),
     r \in Optional("release", {"canary"}),
     u \in Optional("url", {"https://mirror.example/bun.zip"}),
     o \in Optional("output", {"./layers/bun.zip"}),
     p \in Optional("public", {TRUE}),
     k \in Optional("layerKey", {<<"m", "y", "-", "b", "u", "n">>}),
     i \in Optional("omitInjection", {TRUE}),
     x \in Optional("layer", {<<"b", "u", "n">>})}

\* What a configuration file can declare under `custom`: nothing, an object
\* without bunLayer, an object with it.
RawServices ==
  {EmptyObject, [custom |-> EmptyObject], [custom |-> [stage |-> "dev"]]}
    \cup {[custom |-> [bunLayer |-> b]] : b \in RawBunLayers}
    \cup {[custom |-> [bunLayer |-> b, stage |-> "dev"]] : b \in RawBunLayers}

InitConfig ==
  /\ outFile = Absent
  /\ before = outFile
  /\ upstream = [etag |-> "etag-1", body |-> BodyNested]
  /\ servedBy = upstream
  /\ InitBuildIdle
  /\ args = [release |-> "latest", arch |-> "aarch64", url |-> Undefined]
  /\ service \in RawServices
  /\ declared = service
  /\ phase = "start"
  /\ entry = "package"
  /\ options = EmptyObject
  /\ layers = EmptyObject
  /\ provider = [name |-> "aws", runtime |-> "provided.al2", architecture |-> "arm64"]
  /\ functions = [name \in {"api"} |-> [handler |-> "src/api.handler"]]
  /\ InitManifestIdle

SpecConfig == InitConfig /\ [][Initialize]_vars

\* The configurations a command is run under in the model.
CycleServices ==
  {EmptyObject,
   [custom |-> [bunLayer |-> [omitInjection |-> TRUE]]],
   [custom |-> [bunLayer |-> [arch |-> "x64", public |-> TRUE,
                              layerKey |-> <<"m", "y", "-", "b", "u", "n">>]]],
   [custom |-> [bunLayer |-> [release |-> "canary",
                              url |-> "https://mirror.example/bun.zip"]]]}

\* The command line options: none, the ones the command declares as
\* defaults, some given.
CycleOptions ==
  {EmptyObject,
   [arch |-> "aarch64", release |-> "latest", output |-> OUTPUT],
   [arch |-> "x64", release |-> "canary", output |-> OUTPUT]}

CycleFunctions ==
  {f \in FunctionObjects :
     /\ "architecture" \notin DOMAIN f
     /\ ("runtime" \in DOMAIN f => f.runtime = "nodejs20.x")
     /\ ("omitBunLayer" \in DOMAIN f => f.omitBunLayer)}

InitCycle ==
  /\ outFile \in {Absent, BuiltArchive(BodyNested, "etag-1")}
  /\ before = outFile
  /\ upstream \in [etag : {"etag-1"}, body : Bodies]
  /\ servedBy = upstream
  /\ InitBuildIdle
  /\ args = [release |-> "latest", arch |-> "aarch64", url |-> Undefined]
  /\ service \in CycleServices
  /\ declared = service
  /\ phase = "start"
  /\ entry \in {"package", "build-layer"}
  /\ options \in CycleOptions
  /\ layers \in {EmptyObject, (<<"l", "i", "b">> :> [path |-> "lib"])}
  /\ provider = [name |-> "aws", runtime |-> "provided.al2", architecture |-> "arm64"]
  /\ \E f \in CycleFunctions : functions = [name \in {"api"} |-> f]
  /\ InitManifestIdle

NextCycle ==
  \/ Initialize
  \/ CreateDeploymentArtifactsHook
  \/ ArtifactsHookSettled
  \/ CompileLayersHook
  \/ BuildLayerRunHook
  \/ RunHookSettled
  \/ PrimaryFetch
  \/ Unpack
  \/ Augment
  \/ Persist

SpecCycle == InitCycle /\ [][NextCycle]_vars

(***************************************************************************)
(* Properties of buildLambdaLayer (checked under SpecBuild)                *)
(***************************************************************************)
Range(seq) == {seq[i] : i \in 1..Len(seq)}

\* The archive `file` holds the tag t in its sentinel file, at its root.
TagStored(file, t) ==
  /\ file.kind = "zip"
  /\ \E i \in 1..Len(file.entries) : file.entries[i] = Entry(ETAG_FILE, FALSE, t)

\* The zip `body` has a non-directory entry whose name ends in 'bun'.
HasExecutable(body) ==
  /\ body.kind = "zip"
  /\ \E i \in 1..Len(body.entries) :
       ~body.entries[i].dir /\ EndsWith(body.entries[i].name, BUN)

\* The call got a full download and wrote the output file.
Built == pc = "done" /\ "write" \in Range(steps)

\* C1. Cache short-circuit: once the primary GET is answered 304 the call has
\* completed successfully, the output file holds the bytes it held when the
\* call started, the GET is the only request sent, and no step after the
\* fetch (unpack, augment, stamp, persist) has run.
C1_CacheShortCircuit ==
  response.status = 304 =>
    /\ pc = "done"
    /\ error = <<>>
    /\ outFile = before
    /\ steps = <<"probe", "fetch">>
    /\ Len(requests) = 1

\* C1's case: a layer archive with tag T on disk, T sent as If-None-Match,
\* 304 received, the call done.
C1_Witness ==
  /\ pc = "done"
  /\ response.status = 304
  /\ \E t \in Tags :
       /\ TagStored(before, t)
       /\ "If-None-Match" \in DOMAIN requests[1].headers
       /\ requests[1].headers["If-None-Match"] = t
  /\ outFile = before

\* C2. Rebuild on change: an archive a call has built carries, in .etag.txt,
\* exactly the tag of the response it was built from, and not the tag the
\* probe found unless the two are equal; and when the GET returned 200 with a
\* tag and a zip that holds the executable, the call can fail only in an
\* augmentation fetch or in the write.
C2_RebuildCarriesNewTag ==
  /\ (Built /\ response.etag # Null) =>
       /\ TagStored(outFile, response.etag)
       /\ (oldETag # response.etag => ~TagStored(outFile, oldETag))
  /\ (/\ pc = "failed"
      /\ response.status = 200
      /\ response.etag # Null
      /\ HasExecutable(response.body)) =>
       error[1] \in {"Failed to fetch ", "Failed to generate Bun lambda layer: "}

\* C2's case: tag T on disk, 200 with another tag T', the archive rebuilt.
C2_Witness ==
  /\ Built
  /\ \E t \in Tags : \E u \in Tags \ {t} :
       /\ TagStored(before, t)
       /\ oldETag = t
       /\ response.status = 200
       /\ response.etag = u
       /\ TagStored(outFile, u)

\* The cache probe of the call failed for a reason other than absence.
ProbeFailedOtherwise ==
  /\ before.kind # "absent"
  /\ before.kind = "garbage" \/ probeFault = "EACCES"

\* C3. Cache probe errors: an absent output file is read as "no prior tag"
\* and the call goes on; any other failure of the probe (a file that is no
\* zip, a permission error) aborts the call before any request is sent and
\* without a write of the output file.
C3_ProbeErrorsAbort ==
  builds > 0 =>
    /\ before.kind = "absent" =>
         /\ oldETag = Undefined
         /\ ~(pc = "failed" /\ steps = <<"probe">>)
    /\ ProbeFailedOtherwise =>
         /\ pc = "failed"
         /\ requests = <<>>
         /\ outFile = before

\* C4. Missing validation tag: a successful response without an ETag header
\* makes the call fail, and the output file is not written.
C4_MissingTagFails ==
  (/\ response.status >= 200
   /\ response.status <= 299
   /\ response.etag = Null) =>
    /\ pc # "done"
    /\ outFile = before
    /\ "write" \notin Range(steps)

\* C5. Missing executable: when the downloaded zip has no non-directory entry
\* whose name ends in 'bun', the call fails with 'Failed to find executable in
\* zip' at the unpack step, the primary GET is the only request sent, and the
\* output file holds the bytes it held when the call started.
C5_MissingExecutable ==
  (/\ "unpack" \in Range(steps)
   /\ response.body.kind = "zip"
   /\ ~HasExecutable(response.body)) =>
    /\ pc = "failed"
    /\ error = <<"Failed to find executable in zip">>
    /\ Len(requests) = 1
    /\ outFile = before

\* C5's case: a layer on disk, a download whose only entry named bun is a
\* directory, the call failed.
C5_Witness ==
  /\ pc = "failed"
  /\ "unpack" \in Range(steps)
  /\ response.body = BodyNoExe
  /\ \E t \in Tags : TagStored(before, t)
  /\ outFile = before

\* C6. Fetch error: when the primary GET is answered with a status that is
\* neither 2xx nor 304, the call fails with the response body as its message;
\* nothing runs after the fetch, the GET is sent once, the output file is
\* unchanged.
C6_FetchError ==
  (/\ response.status # 0
   /\ response.status # 304
   /\ ~(response.status >= 200 /\ response.status <= 299)) =>
    /\ pc = "failed"
    /\ error = <<response.body.text>>
    /\ steps = <<"probe", "fetch">>
    /\ Len(requests) = 1
    /\ outFile = before

\* C6's case: a 404 received, the call failed with its body.
C6_Witness ==
  /\ pc = "failed"
  /\ response.status = 404
  /\ error = <<"Not Found">>

\* The previous call downloaded and built the archive from a response that
\* carried a tag; the upstream content has not changed since; and the server
\* answers this call's GET 304 exactly when it carries that tag.
UnchangedUpstream ==
  /\ prev.result = "done"
  /\ "write" \in Range(prev.steps)
  /\ prev.response.status = 200
  /\ prev.response.etag \in Tags
  /\ response.status # 0
  /\ servedBy = prev.servedBy
  /\ response = Honest([etag |-> prev.response.etag, body |-> prev.response.body],
                       requests[1].headers)

\* C7. Build idempotence: of two consecutive calls with unchanged upstream
\* content, the first being a real download, the second is answered 304 to
\* the tag the first one stamped: it runs no unpack (one real download in
\* all) and leaves the output file as the first call wrote it.
C7_BuildIdempotent ==
  UnchangedUpstream =>
    /\ response.status = 304
    /\ pc = "done"
    /\ "unpack" \notin Range(steps)
    /\ outFile = prev.after

\* C7's case: after a real download, the second call done on a 304.
C7_Witness ==
  /\ UnchangedUpstream
  /\ pc = "done"
  /\ requests[1].headers["If-None-Match"] = prev.response.etag
  /\ prev.before # prev.after
  /\ outFile = prev.after

(***************************************************************************)
(* Properties of injectLambdaLayer (checked under SpecInject)              *)
(***************************************************************************)
\* The platform identifier of a configured arch.
MappedArchitecture(arch) ==
  CASE arch = "aarch64" -> "arm64" [] arch = "x64" -> "x86_64"

\* The function-level value of key, else the provider-level one, else none.
Effective(func, key) ==
  IF key \in DOMAIN func THEN func[key]
  ELSE IF key \in DOMAIN provider THEN provider[key]
  ELSE Undefined

HasOptedOut(func) == "omitBunLayer" \in DOMAIN func /\ func.omitBunLayer = TRUE

LayersOf(func) == IF "layers" \in DOMAIN func THEN func.layers ELSE <<>>

\* The last injection appended the layer reference to function n, and
\* changed nothing else of it.
Received(n) ==
  /\ "layers" \in DOMAIN functions[n]
  /\ functions[n].layers =
       LayersOf(functionsBefore[n]) \o <<LayerRef(bunLayerConfig.layerKey)>>
  /\ \A k \in DOMAIN functions[n] \ {"layers"} :
       k \in DOMAIN functionsBefore[n] /\ functions[n][k] = functionsBefore[n][k]

\* C8. Conjunctive compatibility: an injection appends the reference to a
\* function if and only if the function has not opted out, its effective
\* runtime is 'provided.al2' or 'provided' and its effective architecture is
\* the one identifier mapped from arch; every other function is left as it was.
C8_ConjunctiveCompatibility ==
  injects > 0 =>
    \A n \in DOMAIN functions :
      /\ Received(n) <=>
           /\ ~HasOptedOut(functionsBefore[n])
           /\ Effective(functionsBefore[n], "runtime") \in {"provided.al2", "provided"}
           /\ Effective(functionsBefore[n], "architecture") =
                MappedArchitecture(bunLayerConfig.arch)
      /\ ~Received(n) => functions[n] = functionsBefore[n]

\* C8's case: in one manifest, a function with a compatible runtime and the
\* other architecture received nothing while a function matching both did.
C8_Witness ==
  /\ injects > 0
  /\ Effective(functionsBefore["f1"], "runtime") = "provided.al2"
  /\ ~HasOptedOut(functionsBefore["f1"])
  /\ Effective(functionsBefore["f1"], "architecture") \in Architectures
  /\ Effective(functionsBefore["f1"], "architecture") # MappedArchitecture(bunLayerConfig.arch)
  /\ functions["f1"] = functionsBefore["f1"]
  /\ Received("f2")

\* C9. Opt-out respected: no injection changes a function whose omitBunLayer
\* flag is set, and such a function never holds the layer reference.
C9_OptOutRespected ==
  /\ [](\A n \in DOMAIN functions :
          HasOptedOut(functions[n]) =>
            LayerRef(bunLayerConfig.layerKey) \notin Range(LayersOf(functions[n])))
  /\ [][\A n \in DOMAIN functions :
          HasOptedOut(functions[n]) => functions'[n] = functions[n]]_vars

\* C9's case: two injections have run over an opted-out function whose
\* effective runtime and architecture are compatible, and it is as it was.
C9_Witness ==
  /\ injects = 2
  /\ HasOptedOut(functions["f1"])
  /\ Effective(functions["f1"], "runtime") \in {"provided.al2", "provided"}
  /\ Effective(functions["f1"], "architecture") = MappedArchitecture(bunLayerConfig.arch)
  /\ functions["f1"] = functionsBefore["f1"]
  /\ Received("f2")

\* C10 as stated: with isPublic the registered definition grants ['*']; without
\* it the definition has no allowedAccounts entry at all.
C10_GrantAbsentWhenPrivate ==
  injects > 0 =>
    IF bunLayerConfig.public
    THEN /\ "allowedAccounts" \in DOMAIN layers[bunLayerConfig.layerKey]
         /\ layers[bunLayerConfig.layerKey].allowedAccounts = <<"*">>
    ELSE "allowedAccounts" \notin DOMAIN layers[bunLayerConfig.layerKey]

\* C10, amended: with isPublic the registered definition grants ['*']; without
\* it the definition has an allowedAccounts entry whose value is undefined,
\* never a list (empty or not).
C10_GrantUndefinedWhenPrivate ==
  injects > 0 =>
    /\ "allowedAccounts" \in DOMAIN layers[bunLayerConfig.layerKey]
    /\ IF bunLayerConfig.public
       THEN layers[bunLayerConfig.layerKey].allowedAccounts = <<"*">>
       ELSE layers[bunLayerConfig.layerKey].allowedAccounts = Undefined

\* C10's case: a private layer has been registered.
C10_Witness ==
  /\ injects > 0
  /\ ~bunLayerConfig.public
  /\ layers[bunLayerConfig.layerKey].allowedAccounts = Undefined

\* A function the injector has to serve under the configured arch.
Compatible(func) ==
  /\ ~HasOptedOut(func)
  /\ Effective(func, "runtime") \in {"provided.al2", "provided"}
  /\ Effective(func, "architecture") = MappedArchitecture(bunLayerConfig.arch)

\* C11. Repeated injection: after n injections with the same layerKey the
\* layers map holds one entry under layerKey, the one the last injection
\* wrote over the one before, and no key the first injection did not
\* leave; the layers sequence of every compatible function ends with n copies
\* of the reference, which are all the copies it holds, and no other
\* function holds a copy.
C11_RepeatedInjection ==
  injects > 0 =>
    /\ DOMAIN layers = DOMAIN layersBefore \cup {bunLayerConfig.layerKey}
    /\ layers[bunLayerConfig.layerKey].package.artifact = bunLayerConfig.output
    /\ injects > 1 => layers = layersBefore
    /\ \A n \in DOMAIN functions :
         LET L == LayersOf(functions[n])
             copies == IF Compatible(functions[n]) THEN injects ELSE 0
         IN  /\ Len(L) >= copies
             /\ \A i \in 1..Len(L) :
                  L[i] = LayerRef(bunLayerConfig.layerKey) <=> i > Len(L) - copies

\* C11's case: two injections into a manifest whose two functions are
\* compatible, one of which came with a reference of
\* its own.
C11_Witness ==
  /\ injects = 2
  /\ Compatible(functions["f1"])
  /\ Len(LayersOf(functions["f1"])) = 3
  /\ functions["f1"].layers[1] = OtherLayer
  /\ Compatible(functions["f2"])
  /\ Len(LayersOf(functions["f2"])) = 2
  /\ bunLayerConfig.layerKey = BUN

\* C12. Frame of an injection: it writes the one entry of the layers map
\* under layerKey and leaves every other entry as it was; a function it
\* serves keeps every property and its earlier references, in order, in front
\* of the one appended reference; a function it skips (opted out, runtime or
\* architecture unresolved or incompatible) is not changed at all; the
\* provider and the plugin's configuration are not changed.
C12_InjectionFrame ==
  /\ [](injects > 0 =>
         /\ DOMAIN layers = DOMAIN layersBefore \cup {bunLayerConfig.layerKey}
         /\ \A k \in DOMAIN layersBefore \ {bunLayerConfig.layerKey} :
              layers[k] = layersBefore[k]
         /\ DOMAIN functions = DOMAIN functionsBefore
         /\ \A n \in DOMAIN functions :
              IF Compatible(functionsBefore[n])
              THEN /\ DOMAIN functions[n] = DOMAIN functionsBefore[n] \cup {"layers"}
                   /\ functions[n].layers =
                        LayersOf(functionsBefore[n])
                          \o <<LayerRef(bunLayerConfig.layerKey)>>
                   /\ \A k \in DOMAIN functionsBefore[n] \ {"layers"} :
                        functions[n][k] = functionsBefore[n][k]
              ELSE functions[n] = functionsBefore[n])
  /\ [][provider' = provider /\ service' = service]_vars

\* C12's case: an injection into a manifest that declares another layer, with
\* a skipped function that holds a reference of its own and a served one.
C12_Witness ==
  /\ injects = 1
  /\ <<"l", "i", "b">> \in DOMAIN layers
  /\ ~Compatible(functionsBefore["f1"])
  /\ LayersOf(functions["f1"]) = <<OtherLayer>>
  /\ Compatible(functionsBefore["f2"])
  /\ LayersOf(functions["f2"]) = <<LayerRef(bunLayerConfig.layerKey)>>

RECURSIVE DashedFrom(_, _)
\* The letters of str from position i on, every '-' spelled out as 'Dash'.
DashedFrom(str, i) ==
  IF i > Len(str) THEN <<>>
  ELSE (IF str[i] = "-" THEN <<"D", "a", "s", "h">> ELSE <<str[i]>>)
         \o DashedFrom(str, i + 1)

\* The name of the CloudFormation resource of the layer declared under
\* layerKey, as the README gives it: "my-bun" becomes "MyDashbun" +
\* "LambdaLayer".
DocumentedLayerResource(layerKey) ==
  LET dashed == DashedFrom(layerKey, 1)
  IN  <<ToUpperCase(dashed[1])>> \o Tail(dashed)
        \o <<"L", "a", "m", "b", "d", "a", "L", "a", "y", "e", "r">>

\* C13. Layer reference naming: the reference an injection appends to a
\* function names the CloudFormation resource documented for layerKey:
\* 'BunLambdaLayer' for 'bun', 'MyDashbunLambdaLayer' for 'my-bun'.
C13_ReferenceNamesDocumentedResource ==
  injects > 0 =>
    \A n \in DOMAIN functions :
      Compatible(functionsBefore[n]) =>
        functions[n].layers[Len(functions[n].layers)] =
          [Ref |-> DocumentedLayerResource(bunLayerConfig.layerKey)]

\* The value v of key is one the layer is compatible with.
CompatibleValue(key, v) ==
  IF key = "runtime" THEN v \in {"provided.al2", "provided"}
  ELSE v = MappedArchitecture(bunLayerConfig.arch)

\* C19. Effective-value resolution: a runtime or architecture a function
\* declares decides alone, whatever the provider declares: an incompatible
\* one makes the injection skip the function, a compatible one (the function
\* has not opted out and its other value is compatible) makes it add the
\* reference; a function whose value is declared at neither level is skipped
\* and not changed.
C19_FunctionLevelOverrides ==
  injects > 0 =>
    \A n \in DOMAIN functions :
      \A key \in {"runtime", "architecture"} :
        LET func == functionsBefore[n]
            other == IF key = "runtime" THEN "architecture" ELSE "runtime"
        IN  /\ (key \in DOMAIN func /\ ~CompatibleValue(key, func[key]))
                 => functions[n] = func
            /\ ( /\ key \in DOMAIN func
                 /\ CompatibleValue(key, func[key])
                 /\ CompatibleValue(other, Effective(func, other))
                 /\ ~HasOptedOut(func) )
                 => Received(n)
            /\ (key \notin DOMAIN func /\ key \notin DOMAIN provider)
                 => functions[n] = func

\* C19's case: under a provider whose runtime is incompatible, the function
\* that declares a compatible runtime received the reference and the one
\* that declares none did not.
C19_Witness ==
  /\ injects = 1
  /\ "runtime" \in DOMAIN provider
  /\ provider.runtime = "nodejs20.x"
  /\ "runtime" \in DOMAIN functionsBefore["f1"]
  /\ functionsBefore["f1"].runtime = "provided"
  /\ Received("f1")
  /\ "runtime" \notin DOMAIN functionsBefore["f2"]
  /\ functions["f2"] = functionsBefore["f2"]

(***************************************************************************)
(* Further properties of buildLambdaLayer (checked under SpecBuild)        *)
(***************************************************************************)
\* The folder part of an entry name: up to its last '/', empty without one.
DirOf(name) ==
  LET slashes == {i \in 1..Len(name) : name[i] = "/"}
  IN  IF slashes = {} THEN <<>>
      ELSE SubSeq(name, 1, CHOOSE i \in slashes : \A j \in slashes : j <= i)

\* The archive `file` holds a file named `name`.
HoldsFile(file, name) ==
  \E i \in 1..Len(file.entries) :
    ~file.entries[i].dir /\ file.entries[i].name = name

\* C17. Flat layout: the archive a call has built holds the executable and,
\* in the folder of the executable, 'bootstrap', 'runtime.ts' and
\* '.etag.txt'.
C17_FlatLayout ==
  Built =>
    \E i \in 1..Len(outFile.entries) :
      LET exe == outFile.entries[i]
      IN  /\ ~exe.dir
          /\ EndsWith(exe.name, BUN)
          /\ \A f \in {BOOTSTRAP, RUNTIME_TS, ETAG_FILE} :
               HoldsFile(outFile, DirOf(exe.name) \o f)

\* The previous call built the archive and stamped it with a tag the
\* response carried.
PrevStamped ==
  /\ prev.result = "done"
  /\ "write" \in Range(prev.steps)
  /\ prev.response.etag \in Tags

\* C18. Tag round-trip: the probe of the call that follows a build which
\* stamped tag T' extracts exactly T' from the archive that build wrote,
\* whatever the layout of the download it was built from, and the GET of
\* that call carries T' in If-None-Match; in every call the GET carries
\* If-None-Match if and only if the probe found a tag (a non-empty sentinel
\* text), and the header is the probed tag, letter for letter.
C18_TagRoundTrip ==
  /\ (builds > 0 /\ PrevStamped /\ probeFault = "none" /\ before = prev.after) =>
       /\ oldETag = prev.response.etag
       /\ Len(requests) > 0 =>
            /\ "If-None-Match" \in DOMAIN requests[1].headers
            /\ requests[1].headers["If-None-Match"] = prev.response.etag
  /\ Len(requests) > 0 =>
       /\ "If-None-Match" \in DOMAIN requests[1].headers
            <=> oldETag \notin {Undefined, ""}
       /\ "If-None-Match" \in DOMAIN requests[1].headers =>
            requests[1].headers["If-None-Match"] = oldETag

\* C18's case: a build from a download that nests the executable two
\* folders deep (and brings a stale sentinel of its own) stamped T'; the next
\* call probed T' and sent it.
C18_Witness ==
  /\ PrevStamped
  /\ prev.response.body = BodyDeep
  /\ probeFault = "none"
  /\ oldETag = prev.response.etag
  /\ Len(requests) > 0
  /\ requests[1].headers["If-None-Match"] = prev.response.etag

\* The number of times step x occurs in the steps of the call.
Times(x) == Cardinality({i \in 1..Len(steps) : steps[i] = x})

\* The archive `file` holds the supplementary file `name` as it was fetched.
HoldsFetched(file, name) ==
  \E i \in 1..Len(file.entries) :
    file.entries[i] = Entry(name, FALSE, AugmentContent(name))

DeclaredBunLayer ==
  IF "custom" \in DOMAIN declared /\ "bunLayer" \in DOMAIN declared.custom
  THEN declared.custom.bunLayer
  ELSE EmptyObject

\* C16. Configuration defaulting: after initialisation, whatever the file
\* declared (no custom section, no bunLayer, an empty one, any subset of its
\* properties), bunLayer holds arch, release, output, public, layerKey and
\* omitInjection, and url only if declared; a declared property keeps its
\* value, any other has 'aarch64', 'latest', './bun-lambda-layer.zip', false,
\* 'bun', false; no property the schema does not name is left.
C16_DefaultsFilled ==
  phase = "initialized" =>
    /\ DOMAIN bunLayerConfig =
         {"arch", "release", "output", "public", "layerKey", "omitInjection"}
           \cup ({"url"} \cap DOMAIN DeclaredBunLayer)
    /\ \A k \in DOMAIN bunLayerConfig :
         bunLayerConfig[k] =
           IF k \in DOMAIN DeclaredBunLayer THEN DeclaredBunLayer[k]
           ELSE CASE k = "arch" -> "aarch64"
                  [] k = "release" -> "latest"
                  [] k = "output" -> "./bun-lambda-layer.zip"
                  [] k = "public" -> FALSE
                  [] k = "layerKey" -> <<"b", "u", "n">>
                  [] k = "omitInjection" -> FALSE

\* C16's case: the file declared a custom section without bunLayer; the
\* object default, which names the key `layer`, went through the property
\* defaults and the removal of undeclared properties.
C16_Witness ==
  /\ phase = "initialized"
  /\ declared = [custom |-> [stage |-> "dev"]]
  /\ bunLayerConfig.layerKey = <<"b", "u", "n">>
  /\ "layer" \notin DOMAIN bunLayerConfig
  /\ service.custom.stage = "dev"

(***************************************************************************)
(* Properties of the hooks (checked under SpecCycle)                       *)
(***************************************************************************)
\* C14. Build precedes injection: in a package command the injection runs
\* at most once and only when the builder has completed, as the step after
\* the host saw the build hook resolve; once the builder has failed no
\* injection has run or runs, the layers map and every function are as
\* the configuration file declared them, and the command is aborted.
C14_BuildPrecedesInject ==
  /\ [](/\ injects <= 1
        /\ injects > 0 => (pc = "done" /\ builds = 1 /\ phase = "end")
        /\ pc = "failed" =>
             /\ injects = 0
             /\ layers = layersBefore
             /\ functions = functionsBefore
             /\ phase \in {"artifacts", "run", "aborted"}
        /\ phase = "aborted" => pc = "failed")
  /\ [][injects' # injects =>
         (phase = "compileLayers" /\ pc = "done" /\ injects' = 1)]_vars
  /\ [][phase = "aborted" => UNCHANGED vars]_vars

\* C14's case: a package command whose builder wrote the archive and whose
\* injection then ran.
C14_Witness ==
  /\ entry = "package"
  /\ phase = "end"
  /\ Built
  /\ injects = 1
  /\ layers # layersBefore
  /\ functions # functionsBefore

\* C15. Build-only modes: a package command under omitInjection builds the
\* archive and ends with the layers map and every function as declared; a
\* build-layer command calls the builder with the command line options
\* (release and arch defaulting to 'latest' and 'aarch64'), whatever
\* custom.bunLayer holds, and it too leaves the layers map and every function
\* as declared.
C15_BuildOnlyModes ==
  /\ (entry = "package" /\ phase # "start" /\ bunLayerConfig.omitInjection) =>
       /\ injects = 0
       /\ layers = layersBefore
       /\ functions = functionsBefore
       /\ phase = "end" => (builds = 1 /\ pc = "done")
  /\ entry = "build-layer" =>
       /\ injects = 0
       /\ layers = layersBefore
       /\ functions = functionsBefore
       /\ phase \notin {"artifacts", "compileLayers"}
       /\ phase = "end" => (builds = 1 /\ pc = "done")
       /\ builds > 0 =>
            args = [release |-> IF "release" \in DOMAIN options
                                THEN options.release ELSE "latest",
                    arch |-> IF "arch" \in DOMAIN options
                             THEN options.arch ELSE "aarch64",
                    url |-> IF "url" \in DOMAIN options
                            THEN options.url ELSE Undefined]

\* C15's case: a package command under omitInjection that has built the
\* archive and ended, for a function the injection would have served.
C15_Witness ==
  /\ entry = "package"
  /\ phase = "end"
  /\ bunLayerConfig.omitInjection
  /\ Built
  /\ Compatible(functions["api"])
  /\ injects = 0

====
